---------------------------- MODULE Spec2Model ----------------------------
(***************************************************************************)
(* Model of desimeter's fiducial finder (py/desimeter/findfiducials.py).   *)
(*                                                                         *)
(* Pixel positions are integers.  The floating point quantities of the     *)
(* code (side ratio r, vertex cosine c, cosine between first sides, the    *)
(* squared triangle distance) are carried in fixed point with Scale units  *)
(* per 1.0, truncated where the code rounds; a division by zero gives inf  *)
(* or nan as numpy gives them.  The copy of the fiducial centres that the  *)
(* refinement loop shifts by medians is carried in units of 1/SubPix pixel *)
(* (a median of an even number of values is the mean of the middle two).   *)
(* Array indices are 0-based as in the source: At(s, i) reads s[i].        *)
(***************************************************************************)
EXTENDS Integers, Sequences, FiniteSets, TLC

VARIABLES
    ties,                       \* order the sorts of this build give to equal keys
    metrologyFile,              \* data/fp-metrology.csv: None when absent, else Some(rows)
    metrology_pinholes_table,   \* module global, None until the first load
    metrology_fiducials_table,  \* module global, None until the first load
    pc,                         \* position inside findfiducials
    calls,                      \* findfiducials calls made so far
    spots,                      \* the caller's table, by column name
    spotsIn,                    \* the table as it was passed in
    trueShift,                  \* pointing of this exposure: spot = X_FP + trueShift
    input_tx,                   \* the transform of this call
    loadTx,                     \* the transforms the loads were made with, in order
    exception,                  \* what the call raised, "" if nothing
    measured_spots_distances,   \* squared, -1 = inf
    measured_spots_indices,
    fiducials_candidates_indices,
    metrology_xy,               \* shifted copy of the fiducial centres, 1/SubPix pixel
    indices,                    \* nearest candidate of each fiducial centre
    distances,                  \* its squared distance, (1/SubPix pixel)^2, -1 = inf
    indices0,                   \* the result of the first query (line 109)
    loop,
    matching_known_fiducials_indices,
    pair,                       \* position in the zip of line 150
    cluster,                    \* locals of the current iteration of line 150
    rank,                       \* position in ranked_pairs
    applied,                    \* spot rows written by the loop of line 191, this call
    writes,                     \* what lines 198-199 wrote to them, this call
    pts,                        \* compute_triangles alone: its input points
    tri,                        \* compute_triangles alone: None or Some(result)
    sim,                        \* compute_triangles alone: the similarity applied
    triSim                      \* compute_triangles alone: result on the image points

globals == <<metrologyFile, metrology_pinholes_table, metrology_fiducials_table, loadTx>>

\* what a call is made with
callVars == <<calls, spotsIn, trueShift, input_tx>>

locals == <<measured_spots_distances, measured_spots_indices,
            fiducials_candidates_indices, metrology_xy, indices, distances, indices0,
            loop, matching_known_fiducials_indices, pair, cluster, rank, applied, writes>>

triVars == <<pts, tri, sim, triSim>>

vars == <<ties, globals, pc, spots, exception, callVars, locals, triVars>>

-----------------------------------------------------------------------------
(* Numbers *)

Scale == 10^3
SubPix == 2 * 2

None == <<>>
Some(v) == <<v>>

At(s, i) == s[i + 1]

\* np.array(s): the sequence s, held as an array of values
Array(s) == s \o << >>

Range0(n) == 0 .. (n - 1)

SetOf(k) == {k[n] : n \in 1 .. Len(k)}

Abs(n) == IF n < 0 THEN -n ELSE n

Sq(n) == n * n

RECURSIVE SqrtSearch(_, _, _)
SqrtSearch(n, lo, hi) ==
    IF lo >= hi THEN lo
    ELSE LET mid == (lo + hi + 1) \div 2
         IN  IF mid * mid <= n THEN SqrtSearch(n, mid, hi)
             ELSE SqrtSearch(n, lo, mid - 1)

\* floor(sqrt(n)), n < 2^31
ISqrt(n) == SqrtSearch(n, 0, 46340)

\* floor(n * Scale^2 / d) without leaving 32 bits
ScaledRatio(n, d) ==
    LET q == (n * Scale) \div d
        m == (n * Scale) % d
    IN  q * Scale + (m * Scale) \div d

Num(v) == [kind |-> "num", v |-> v]
Inf == [kind |-> "inf", v |-> 0]
NaN == [kind |-> "nan", v |-> 0]

\* np.sqrt(a / b) for a, b >= 0
FSqrtDiv(a, b) ==
    IF b = 0 THEN (IF a = 0 THEN NaN ELSE Inf)
    ELSE Num(ISqrt(ScaledRatio(a, b)))

\* n / np.sqrt(d) for d >= 0, n*n <= d
FDivSqrt(n, d) ==
    IF d = 0 THEN (IF n = 0 THEN NaN ELSE Inf)
    ELSE Num((IF n < 0 THEN -1 ELSE 1) * ISqrt(ScaledRatio(n * n, d)))

\* a > n on floats: False when a is nan
FGt(a, n) == \/ a.kind = "inf"
             \/ a.kind = "num" /\ a.v > n

\* a >= b and a <= b on floats: False when either is nan
FGe(a, n) == \/ a.kind = "inf"
             \/ a.kind = "num" /\ a.v >= n
FAbsLe(a, n) == a.kind = "num" /\ Abs(a.v) <= n

-----------------------------------------------------------------------------
(* numpy sorting *)

\* index a goes before index b
SortsBefore(keys, a, b) ==
    \/ At(keys, a) < At(keys, b)
    \/ /\ At(keys, a) = At(keys, b)
       /\ IF ties = "first" THEN a < b ELSE a > b

\* np.argsort(keys): the indices of keys in ascending order of key
argsort(keys) ==
    LET v == Array(keys)
        place == Array([n \in 1 .. Len(v) |->
                     Cardinality({b \in Range0(Len(v)) : SortsBefore(v, b, n - 1)})])
    IN  Array([p \in 1 .. Len(v) |-> CHOOSE a \in Range0(Len(v)) : At(place, a) = p - 1])

\* a float nan and a float inf among keys that are else integers >= 0
NaNKey == 0 - 1
InfKey == 2^30

\* d > lim on keys: False when d is nan
Exceeds(d, lim) == d # NaNKey /\ d > lim

\* where a sort puts a key: nan after everything
SortKey(d) == IF d = NaNKey THEN InfKey + 1 ELSE d

\* np.argmin(keys): the first index holding the minimum, the first nan if there
\* is one
argmin(keys) ==
    LET v == Array(keys)
    IN  CHOOSE a \in Range0(Len(v)) :
            /\ \A b \in Range0(Len(v)) : At(v, a) <= At(v, b)
            /\ \A b \in Range0(a) : At(v, b) > At(v, a)

-----------------------------------------------------------------------------
(* compute_triangles *)

\* the squared lengths of the sides 0-1, 1-2, 2-0 of a triangle (line 33)
SideLengths2(tx, ty) ==
    << Sq(At(tx, 1) - At(tx, 0)) + Sq(At(ty, 1) - At(ty, 0)),
       Sq(At(tx, 2) - At(tx, 1)) + Sq(At(ty, 2) - At(ty, 1)),
       Sq(At(tx, 0) - At(tx, 2)) + Sq(At(ty, 0) - At(ty, 2)) >>

\* the vertices each side joins, in the order of SideLengths2 (line 34)
pairs == << {0, 1}, {1, 2}, {0, 2} >>

\* np.intersect1d of two sides, stored into one cell of ordering
intersect1d(a, b) == CHOOSE v \in a \cap b : TRUE

\* VertexOrdering with the last vertex taken from the sides of the first
VertexOrdering_SidesRepeated(ii) ==
    << intersect1d(At(pairs, At(ii, 0)), At(pairs, At(ii, 2))),
       intersect1d(At(pairs, At(ii, 0)), At(pairs, At(ii, 1))),
       intersect1d(At(pairs, At(ii, 0)), At(pairs, At(ii, 2))) >>

\* the canonical vertex order from the sorted sides (lines 36-40)
VertexOrdering(ii) ==
    << intersect1d(At(pairs, At(ii, 0)), At(pairs, At(ii, 2))),
       intersect1d(At(pairs, At(ii, 0)), At(pairs, At(ii, 1))),
       intersect1d(At(pairs, At(ii, 1)), At(pairs, At(ii, 2))) >>

\* SideRatio with the two sides exchanged
SideRatio_Inverted(tl2, ii) == FSqrtDiv(At(tl2, At(ii, 0)), At(tl2, At(ii, 2)))

\* ratio of longest to shortest side (line 46)
SideRatio(tl2, ii) == FSqrtDiv(At(tl2, At(ii, 2)), At(tl2, At(ii, 0)))

\* VertexCosine without the y term of the scalar product
VertexCosine_NoYTerm(tx, ty) ==
    FDivSqrt( (At(tx, 1) - At(tx, 0)) * (At(tx, 2) - At(tx, 0)),
              (Sq(At(tx, 1) - At(tx, 0)) + Sq(At(ty, 1) - At(ty, 0)))
                * (Sq(At(tx, 2) - At(tx, 0)) + Sq(At(ty, 2) - At(ty, 0))) )

\* cos of the angle at the first vertex, tx, ty in canonical order (line 47)
VertexCosine(tx, ty) ==
    FDivSqrt( (At(tx, 1) - At(tx, 0)) * (At(tx, 2) - At(tx, 0))
                + (At(ty, 1) - At(ty, 0)) * (At(ty, 2) - At(ty, 0)),
              (Sq(At(tx, 1) - At(tx, 0)) + Sq(At(ty, 1) - At(ty, 0)))
                * (Sq(At(tx, 2) - At(tx, 0)) + Sq(At(ty, 2) - At(ty, 0))) )

\* the body of the triple loop for one i < j < k (lines 28-47)
Triangle(x, y, i, j, k) ==
    LET ijk == << i, j, k >>
        tx == << At(x, i), At(x, j), At(x, k) >>
        ty == << At(y, i), At(y, j), At(y, k) >>
        tl2 == SideLengths2(tx, ty)
        ii == argsort(tl2)
        ordering == VertexOrdering(ii)
        ox == [n \in 1 .. 3 |-> At(tx, ordering[n])]
        oy == [n \in 1 .. 3 |-> At(ty, ordering[n])]
    IN  [k |-> Array([n \in 1 .. 3 |-> At(ijk, ordering[n])]),
         r |-> SideRatio(tl2, ii),
         c |-> VertexCosine(ox, oy)]

RECURSIVE TriangleLoop(_, _, _, _, _, _)
TriangleLoop(x, y, i, j, k, acc) ==
    IF i >= Len(x) THEN acc
    ELSE IF j >= Len(x) THEN TriangleLoop(x, y, i + 1, i + 2, i + 3, acc)
    ELSE IF k >= Len(x) THEN TriangleLoop(x, y, i, j + 1, j + 2, acc)
    ELSE TriangleLoop(x, y, i, j, k + 1, Append(acc, Triangle(x, y, i, j, k)))

\* compute_triangles(x, y): tk, tr, tc, one entry per triangle
compute_triangles(x, y) ==
    LET t == TriangleLoop(x, y, 0, 1, 2, << >>)
    IN  [tk |-> Array([n \in 1 .. Len(t) |-> t[n].k]),
         tr |-> Array([n \in 1 .. Len(t) |-> t[n].r]),
         tc |-> Array([n \in 1 .. Len(t) |-> t[n].c])]

-----------------------------------------------------------------------------
(* findfiducials: the numbers of its text *)

Separation == 7
KNeighbors == 4
MinNeighbors == 3
RefineLoops == 2
MaxDistance == 10
CenterPinhole == 4

-----------------------------------------------------------------------------
(* The metrology data set and the spot tables of the exposures *)

MetRow(pid, loc, x, y) == [PINHOLE_ID |-> pid, LOCATION |-> loc, X_FP |-> x, Y_FP |-> y]

\* one fiducial, pinholes on a unit square, and one positioner
SquareFile ==
    << MetRow(4, 1, 0, 0), MetRow(1, 1, 1, 0), MetRow(0, 2, 30, 30),
       MetRow(2, 1, 0, 1), MetRow(3, 1, 1, 1) >>

\* three fiducials with the same pinhole pattern, whose triangles are all scalene
\* and whose pinholes 4, 1, 3 make a flat triangle, and two positioners
FieldFile ==
    << MetRow(1, 11, 3, 0),  MetRow(4, 11, 0, 0),   MetRow(0, 20, 10, 9),
       MetRow(2, 11, 0, 2),  MetRow(3, 11, -3, -1),
       MetRow(4, 12, 20, 0), MetRow(1, 12, 23, 0),  MetRow(2, 12, 20, 2),
       MetRow(3, 12, 17, -1), MetRow(0, 21, 30, 9),
       MetRow(3, 13, 37, -1), MetRow(2, 13, 40, 2), MetRow(1, 13, 43, 0),
       MetRow(4, 13, 40, 0) >>

\* two fiducials with different pinhole ids, so close that a pinhole of the second
\* is among the 4 nearest spots of the centre of the first, with which it makes a
\* rectangle
CloseFile ==
    << MetRow(4, 31, 0, 0), MetRow(1, 31, 3, 0), MetRow(2, 31, 0, 2),
       MetRow(5, 32, 3, 2), MetRow(4, 32, 6, 2), MetRow(6, 32, 6, 5),
       MetRow(7, 32, 8, 2) >>

MetrologyFiles == {None, Some(SquareFile), Some(FieldFile), Some(CloseFile)}

\* the pointing offsets of the exposures and the transforms of the calls
Shifts == { <<0, 0>>, <<1, 0>>, <<12, 0>>, <<100, 50>> }
Transforms == { <<0, 0>>, <<2, 1>> }

Variants == {"full", "reversed", "isolated", "partial", "lone", "labelled",
             "three", "flat", "shaken", "doubled", "displaced"}

\* s[n] for the n of keep, in order
RECURSIVE SelectRows(_, _, _)
SelectRows(s, keep, n) ==
    IF n > Len(s) THEN << >>
    ELSE (IF n \in keep THEN << s[n] >> ELSE << >>) \o SelectRows(s, keep, n + 1)

Reverse(s) == [n \in 1 .. Len(s) |-> s[Len(s) + 1 - n]]

Table(xy) == [XPIX |-> [n \in 1 .. Len(xy) |-> xy[n][1]],
              YPIX |-> [n \in 1 .. Len(xy) |-> xy[n][2]]]

\* the spots the pinholes of rows give under pointing shift
Images(rows, shift) ==
    LET ph == SelectRows(rows, {n \in 1 .. Len(rows) : rows[n].PINHOLE_ID > 0}, 1)
    IN  [n \in 1 .. Len(ph) |-> << ph[n].X_FP + shift[1], ph[n].Y_FP + shift[2] >>]

LastLocation(rows) == rows[Len(rows)].LOCATION

\* a spot table of an exposure: the images of the pinholes, in full or not, with or
\* without spots that belong to no fiducial, with or without a spot detected twice,
\* with or without identity columns
SpotTable(rows, shift, variant) ==
    LET all == Images(rows, shift)
        far == << shift[1] - 40, shift[2] + 60 >>
    IN  CASE variant = "full" -> Table(all)
          [] variant = "reversed" -> Table(Reverse(all))
          [] variant = "isolated" -> Table(<< far >> \o all)
          [] variant = "partial" ->
                Table(Images(SelectRows(rows,
                    {n \in 1 .. Len(rows) : rows[n].LOCATION # LastLocation(rows)}, 1), shift))
          [] variant = "three" ->
                Table(<< far >> \o Images(SelectRows(rows,
                    {n \in 1 .. Len(rows) : rows[n].PINHOLE_ID # 3}, 1), shift))
          [] variant = "flat" ->
                Table(Images(SelectRows(rows,
                    {n \in 1 .. Len(rows) : rows[n].PINHOLE_ID # 2}, 1), shift))
          [] variant = "doubled" ->
                LET flat == Images(SelectRows(rows,
                                {n \in 1 .. Len(rows) : rows[n].PINHOLE_ID # 2}, 1), shift)
                IN  Table(flat \o << flat[1] >>)
          [] variant = "displaced" ->
                Table(Images([n \in 1 .. Len(rows) |->
                    IF rows[n].LOCATION = LastLocation(rows)
                    THEN [rows[n] EXCEPT !.Y_FP = @ - (MaxDistance + 2)]
                    ELSE rows[n]], shift))
          [] variant = "shaken" ->
                Table(Images([n \in 1 .. Len(rows) |->
                    IF rows[n].PINHOLE_ID = 1
                    THEN [rows[n] EXCEPT !.Y_FP = @ - 1] ELSE rows[n]], shift))
          [] variant = "lone" ->
                Table(<< far, << far[1] + Separation, far[2] >>,
                         << far[1], far[2] + Separation >> >>)
          [] variant = "labelled" ->
                [XPIX |-> Table(<< far >> \o all).XPIX,
                 YPIX |-> Table(<< far >> \o all).YPIX,
                 LOCATION |-> [n \in 1 .. Len(all) + 1 |-> 99],
                 PINHOLE_ID |-> [n \in 1 .. Len(all) + 1 |-> IF n = 1 THEN 0 ELSE 7]]

NoSpots == [XPIX |-> << >>, YPIX |-> << >>]

\* FVCFP_Polynomial.fp2fvc of the transform tx: focal plane to pixels
fp2fvc(tx, x, y) == << x + tx[1], y + tx[2] >>

-----------------------------------------------------------------------------
(* findfiducials: pure steps *)

\* tc1[p] > 0.9 and dist2[p] > 1.e-3 compare against these
FlatCosine == (9 * Scale) \div 10
MaxDist2 == (Scale * Scale) \div 1000

Dist2(p, q) == Sq(p[1] - q[1]) + Sq(p[2] - q[2])

\* table[:][table[col] ...]: the rows of keep, in order
PinholesTable(rows, tx) ==
    LET ph == SelectRows(rows, {n \in 1 .. Len(rows) : rows[n].PINHOLE_ID > 0}, 1)
    IN  [n \in 1 .. Len(ph) |->
            [PINHOLE_ID |-> ph[n].PINHOLE_ID, LOCATION |-> ph[n].LOCATION,
             X_FP |-> ph[n].X_FP, Y_FP |-> ph[n].Y_FP,
             XPIX |-> fp2fvc(tx, ph[n].X_FP, ph[n].Y_FP)[1],
             YPIX |-> fp2fvc(tx, ph[n].X_FP, ph[n].Y_FP)[2]]]

FiducialsTable(pinholes) ==
    SelectRows(pinholes,
               {n \in 1 .. Len(pinholes) : pinholes[n].PINHOLE_ID = CenterPinhole}, 1)

\* KDTree(points).query(q, k, distance_upper_bound): the k nearest points of the tree
\* in ascending distance, those not below the bound (ub2 squared, -1 for none) or
\* beyond the size of the tree given as distance inf and index n
KDQuery(points, q, k, ub2) ==
    LET keys == Array([n \in 1 .. Len(points) |-> Dist2(points[n], q)])
        order == argsort(keys)
        found(p) == p <= Len(points) /\ (ub2 = -1 \/ At(keys, order[p]) < ub2)
    IN  [d |-> [p \in 1 .. k |-> IF found(p) THEN At(keys, order[p]) ELSE -1],
         i |-> [p \in 1 .. k |-> IF found(p) THEN order[p] ELSE Len(points)]]

SpotXY(tbl) == Array([n \in 1 .. Len(tbl.XPIX) |-> << tbl.XPIX[n], tbl.YPIX[n] >>])

\* a distance of a query is below lim pixels, unit units per pixel
Below(d2, lim, unit) == d2 >= 0 /\ d2 < Sq(lim * unit)

\* np.sum(measured_spots_distances < separation, axis=1), one row
NumberOfNeighbors(drow) ==
    Cardinality({p \in 1 .. Len(drow) : Below(drow[p], Separation, 1)})

\* CandidateIndices that wants more than MinNeighbors
CandidateIndices_Strict(dist) ==
    LET keep == {n \in 1 .. Len(dist) : NumberOfNeighbors(dist[n]) > MinNeighbors}
    IN  SelectRows([n \in 1 .. Len(dist) |-> n - 1], keep, 1)

\* np.where(number_of_neighbors >= 3)[0]
CandidateIndices(dist) ==
    LET keep == {n \in 1 .. Len(dist) : NumberOfNeighbors(dist[n]) >= MinNeighbors}
    IN  SelectRows([n \in 1 .. Len(dist) |-> n - 1], keep, 1)

\* the candidates' pixel positions, in 1/SubPix pixel
CandidateXY(tbl, cand) ==
    Array([n \in 1 .. Len(cand) |->
              << SubPix * At(tbl.XPIX, cand[n]), SubPix * At(tbl.YPIX, cand[n]) >>])

\* np.median of a non-empty list of multiples of 2 (mean of the middle two when even)
median(v) ==
    LET o == argsort(v)
        n == Len(v)
    IN  IF n % 2 = 1 THEN At(v, o[(n + 1) \div 2])
        ELSE (At(v, o[n \div 2]) + At(v, o[n \div 2 + 1])) \div 2

\* Shifted with the offsets added
Shifted_Added(xy, dx, dy) ==
    Array([n \in 1 .. Len(xy) |-> << xy[n][1] + dx, xy[n][2] + dy >>])

\* metrology_xy[:,0] -= dx ; metrology_xy[:,1] -= dy
Shifted(xy, dx, dy) == Array([n \in 1 .. Len(xy) |-> << xy[n][1] - dx, xy[n][2] - dy >>])

\* spots_tree.query(metrology_xy, k=1)
NearestCandidates(candxy, xy) ==
    LET q == Array([n \in 1 .. Len(xy) |-> KDQuery(candxy, xy[n], 1, -1)])
    IN  [d |-> [n \in 1 .. Len(xy) |-> q[n].d[1]],
         i |-> [n \in 1 .. Len(xy) |-> q[n].i[1]]]

-----------------------------------------------------------------------------
(* findfiducials: matching the pinholes of one candidate (lines 151-190) *)

\* measured_spots_indices[index1][measured_spots_distances[index1] < separation]
NeighborIndices(irow, drow) ==
    SelectRows(irow, {p \in 1 .. Len(drow) : Below(drow[p], Separation, 1)}, 1)

\* np.where(metrology_pinholes_table["LOCATION"] == location)[0]
PinholesOf(pinholes, location) ==
    SelectRows([n \in 1 .. Len(pinholes) |-> n - 1],
               {n \in 1 .. Len(pinholes) : pinholes[n].LOCATION = location}, 1)

\* |cos| between the first sides (vertex 0 to vertex 1) of two triangles, from the
\* unit vectors of lines 173-177
FirstSideCosine(x1, y1, k1, x2, y2, k2) ==
    LET ux == At(x1, k1[2]) - At(x1, k1[1])
        uy == At(y1, k1[2]) - At(y1, k1[1])
        vx == At(x2, k2[2]) - At(x2, k2[1])
        vy == At(y2, k2[2]) - At(y2, k2[1])
        cos == FDivSqrt(ux * vx + uy * vy, (Sq(ux) + Sq(uy)) * (Sq(vx) + Sq(vy)))
    IN  IF cos.kind = "num" THEN Num(Abs(cos.v)) ELSE NaN

\* dist2 of line 181, one row: measured triangle a against every metrology triangle
TriangleDistances(x1, y1, t1, x2, y2, t2, a) ==
    Array([b \in 1 .. Len(t2.tk) |->
        LET cos12 == FirstSideCosine(x1, y1, t1.tk[a], x2, y2, t2.tk[b])
            terms == << t1.tr[a], t2.tr[b], t1.tc[a], t2.tc[b], cos12 >>
        IN  IF \A n \in 1 .. 5 : terms[n].kind = "num"
            THEN Sq(t1.tr[a].v - t2.tr[b].v) + Sq(t1.tc[a].v - t2.tc[b].v)
                   + Sq(cos12.v - Scale)
            ELSE IF \/ \E n \in 1 .. 5 : terms[n].kind = "nan"
                    \/ t1.tr[a].kind = t2.tr[b].kind
                 THEN NaNKey
                 ELSE InfKey])

\* min of a non-empty list
Min(v) == At(v, argmin(v))

\* the locals of one iteration of the loop of line 150, up to line 190
MatchCluster(tbl, pinholes, location, irow, drow) ==
    LET pi1 == NeighborIndices(irow, drow)
        pi2 == PinholesOf(pinholes, location)
        x1 == Array([n \in 1 .. Len(pi1) |-> At(tbl.XPIX, pi1[n])])
        y1 == Array([n \in 1 .. Len(pi1) |-> At(tbl.YPIX, pi1[n])])
        x2 == Array([n \in 1 .. Len(pi2) |-> At(pinholes, pi2[n]).XPIX])
        y2 == Array([n \in 1 .. Len(pi2) |-> At(pinholes, pi2[n]).YPIX])
        t1 == compute_triangles(x1, y1)
        t2 == compute_triangles(x2, y2)
        all == Array([a \in 1 .. Len(t1.tk) |-> TriangleDistances(x1, y1, t1, x2, y2, t2, a)])
        dist2 == Array([a \in 1 .. Len(all) |-> Min(all[a])])
    IN  [location |-> location, pi1 |-> pi1, pi2 |-> pi2,
         tk1 |-> t1.tk, tc1 |-> t1.tc, tk2 |-> t2.tk,
         matched |-> [a \in 1 .. Len(all) |-> argmin(all[a])],
         dist2 |-> dist2,
         ranked_pairs |-> argsort([a \in 1 .. Len(dist2) |-> SortKey(dist2[a])]),
         metrology_pinhole_ids |-> [n \in 1 .. Len(pi2) |-> At(pinholes, pi2[n]).PINHOLE_ID],
         pinhole_ids |-> [n \in 1 .. Len(pi1) |-> 0],
         visited |-> << >>]

NoCluster ==
    [location |-> 0, pi1 |-> << >>, pi2 |-> << >>, tk1 |-> << >>, tc1 |-> << >>,
     tk2 |-> << >>, matched |-> << >>, dist2 |-> << >>, ranked_pairs |-> << >>,
     metrology_pinhole_ids |-> << >>, pinhole_ids |-> << >>, visited |-> << >>]

\* Assign that leaves alone a row that holds a value already
Assign_KeepFirst(column, rows, values) ==
    [m \in 1 .. Len(column) |->
        IF column[m] = 0 /\ \E n \in 1 .. Len(rows) : rows[n] = m - 1
        THEN values[CHOOSE n \in 1 .. Len(rows) : rows[n] = m - 1]
        ELSE column[m]]

\* column[rows[n]] = values[n] for every n (0-based rows)
Assign(column, rows, values) ==
    [m \in 1 .. Len(column) |->
        IF \E n \in 1 .. Len(rows) : rows[n] = m - 1
        THEN values[CHOOSE n \in 1 .. Len(rows) : rows[n] = m - 1]
        ELSE column[m]]

\* ZeroColumn filled with ones
ZeroColumn_Ones(n) == [m \in 1 .. n |-> 1]

\* np.zeros(n, dtype=int), the new identity column
ZeroColumn(n) == [m \in 1 .. n |-> 0]

-----------------------------------------------------------------------------
(* findfiducials, step by step *)

MaxCalls == 2

FreshLocals ==
    /\ measured_spots_distances = << >>
    /\ measured_spots_indices = << >>
    /\ fiducials_candidates_indices = << >>
    /\ metrology_xy = << >>
    /\ indices = << >>
    /\ distances = << >>
    /\ indices0 = << >>
    /\ loop = 0
    /\ matching_known_fiducials_indices = << >>
    /\ pair = 0
    /\ cluster = NoCluster
    /\ rank = 0
    /\ applied = {}
    /\ writes = {}

NoTriangles ==
    /\ pts = << >>
    /\ tri = None
    /\ sim = << <<1, 0>>, <<0, 0>> >>
    /\ triSim = None

\* the module as imported, before any call
Imported ==
    /\ metrology_pinholes_table = None
    /\ metrology_fiducials_table = None
    /\ loadTx = << >>
    /\ pc = "idle"
    /\ calls = 0
    /\ spots = NoSpots
    /\ spotsIn = NoSpots
    /\ trueShift = <<0, 0>>
    /\ input_tx = <<0, 0>>
    /\ exception = ""
    /\ FreshLocals

Init ==
    /\ ties \in {"first", "last"}
    /\ metrologyFile \in MetrologyFiles
    /\ Imported
    /\ NoTriangles

\* findfiducials(spots, input_transform) is entered (lines 60-72)
Call ==
    /\ pc \in {"idle", "returned", "raised"}
    /\ calls < MaxCalls
    /\ \E shift \in Shifts, variant \in Variants, tx \in Transforms :
          /\ spots' = SpotTable(IF metrologyFile = None THEN SquareFile
                                ELSE metrologyFile[1], shift, variant)
          /\ trueShift' = shift
          /\ input_tx' = tx
    /\ spotsIn' = spots'
    /\ calls' = calls + 1
    /\ exception' = ""
    /\ pc' = "load"
    /\ measured_spots_distances' = << >>
    /\ measured_spots_indices' = << >>
    /\ fiducials_candidates_indices' = << >>
    /\ metrology_xy' = << >>
    /\ indices' = << >>
    /\ distances' = << >>
    /\ indices0' = << >>
    /\ loop' = 0
    /\ matching_known_fiducials_indices' = << >>
    /\ pair' = 0
    /\ cluster' = NoCluster
    /\ rank' = 0
    /\ applied' = {}
    /\ writes' = {}
    /\ UNCHANGED <<ties, globals, triVars>>

\* lines 75-80: nothing cached and no metrology file
LoadMissing ==
    /\ pc = "load"
    /\ metrology_pinholes_table = None
    /\ metrologyFile = None
    /\ exception' = "IOError"
    /\ pc' = "raised"
    /\ UNCHANGED <<ties, globals, spots, callVars, locals, triVars>>

\* lines 75-93: nothing cached, the file is read and the pixel positions derived
LoadMetrology ==
    /\ pc = "load"
    /\ metrology_pinholes_table = None
    /\ metrologyFile # None
    /\ metrology_pinholes_table' = Some(PinholesTable(metrologyFile[1], input_tx))
    /\ metrology_fiducials_table' = Some(FiducialsTable(metrology_pinholes_table'[1]))
    /\ loadTx' = Append(loadTx, input_tx)
    /\ pc' = "candidates"
    /\ UNCHANGED <<ties, metrologyFile, spots, exception, callVars, locals, triVars>>

\* LoadCached that derives the pixel positions again, with the transform of the call
LoadCached_Reload ==
    /\ pc = "load"
    /\ metrology_pinholes_table # None
    /\ metrology_pinholes_table' = Some(PinholesTable(metrologyFile[1], input_tx))
    /\ metrology_fiducials_table' = Some(FiducialsTable(metrology_pinholes_table'[1]))
    /\ loadTx' = Append(loadTx, input_tx)
    /\ pc' = "candidates"
    /\ UNCHANGED <<ties, metrologyFile, spots, exception, callVars, locals, triVars>>

\* line 75: the tables are cached already
LoadCached ==
    /\ pc = "load"
    /\ metrology_pinholes_table # None
    /\ pc' = "candidates"
    /\ UNCHANGED <<ties, globals, spots, exception, callVars, locals, triVars>>

\* lines 97-101
FindCandidates ==
    /\ pc = "candidates"
    /\ LET xy == SpotXY(spots)
           q == Array([n \in 1 .. Len(xy) |->
                          KDQuery(xy, xy[n], KNeighbors, Sq(Separation))])
       IN  /\ measured_spots_distances' = [n \in 1 .. Len(xy) |-> q[n].d]
           /\ measured_spots_indices' = [n \in 1 .. Len(xy) |-> q[n].i]
    /\ fiducials_candidates_indices' = CandidateIndices(measured_spots_distances')
    /\ pc' = "query"
    /\ UNCHANGED <<ties, globals, spots, exception, callVars, triVars>>
    /\ UNCHANGED <<metrology_xy, indices, distances, indices0, loop,
                   matching_known_fiducials_indices, pair, cluster, rank, applied, writes>>


\* lines 106-109: the nearest candidate of every fiducial centre
QueryFiducials ==
    /\ pc = "query"
    /\ LET fid == metrology_fiducials_table[1]
           xy == Array([n \in 1 .. Len(fid) |->
                           << SubPix * fid[n].XPIX, SubPix * fid[n].YPIX >>])
           q == NearestCandidates(CandidateXY(spots, fiducials_candidates_indices), xy)
       IN  /\ metrology_xy' = xy
           /\ distances' = q.d
           /\ indices' = q.i
           /\ indices0' = q.i
    /\ loop' = 0
    /\ pc' = "refine"
    /\ UNCHANGED <<ties, globals, spots, exception, callVars, triVars>>
    /\ UNCHANGED <<measured_spots_distances, measured_spots_indices,
                   fiducials_candidates_indices, matching_known_fiducials_indices,
                   pair, cluster, rank, applied, writes>>

\* lines 106-114 with no candidate: a scipy whose KDTree takes no empty point set
\* raises ValueError at line 106; otherwise every entry of indices is 0, the size
\* of the empty tree, and indexing the empty column with it raises IndexError
RefineNoCandidate ==
    /\ pc = "refine"
    /\ loop < RefineLoops
    /\ Len(fiducials_candidates_indices) = 0
    /\ Len(indices) > 0
    /\ exception' \in {"IndexError", "ValueError"}
    /\ pc' = "raised"
    /\ UNCHANGED <<ties, globals, spots, callVars, locals, triVars>>

\* lines 113-121, one round: fit the offset, shift the centres, match again
Refine ==
    /\ pc = "refine"
    /\ loop < RefineLoops
    /\ Len(fiducials_candidates_indices) > 0
    /\ LET cand == CandidateXY(spots, fiducials_candidates_indices)
           dx == median([n \in 1 .. Len(metrology_xy) |->
                            metrology_xy[n][1] - At(cand, indices[n])[1]])
           dy == median([n \in 1 .. Len(metrology_xy) |->
                            metrology_xy[n][2] - At(cand, indices[n])[2]])
           q == NearestCandidates(cand, Shifted(metrology_xy, dx, dy))
       IN  /\ metrology_xy' = Shifted(metrology_xy, dx, dy)
           /\ distances' = q.d
           /\ indices' = q.i
    /\ loop' = loop + 1
    /\ UNCHANGED <<ties, globals, pc, spots, exception, callVars, triVars>>
    /\ UNCHANGED <<measured_spots_distances, measured_spots_indices,
                   fiducials_candidates_indices, indices0,
                   matching_known_fiducials_indices, pair, cluster, rank, applied, writes>>

\* Selection that takes a distance of maxdistance too
Selection_Inclusive(dist) ==
    SelectRows([n \in 1 .. Len(dist) |-> n - 1],
               {n \in 1 .. Len(dist) :
                   dist[n] >= 0 /\ dist[n] <= Sq(MaxDistance * SubPix)}, 1)

\* np.where(distances < maxdistance)[0]
Selection(dist) ==
    SelectRows([n \in 1 .. Len(dist) |-> n - 1],
               {n \in 1 .. Len(dist) : Below(dist[n], MaxDistance, SubPix)}, 1)

\* lines 124-128
Select ==
    /\ pc = "refine"
    /\ loop = RefineLoops
    /\ LET selection == Selection(distances)
       IN  /\ fiducials_candidates_indices' =
                  [n \in 1 .. Len(selection) |->
                      At(fiducials_candidates_indices, At(indices, selection[n]))]
           /\ matching_known_fiducials_indices' = selection
    /\ pc' = "columns"
    /\ UNCHANGED <<ties, globals, spots, exception, callVars, triVars>>
    /\ UNCHANGED <<measured_spots_distances, measured_spots_indices, metrology_xy,
                   indices, distances, indices0, loop, pair, cluster, rank, applied, writes>>

\* the table with the identity columns it lacks (lines 143-147)
WithIdentityColumns(tbl) ==
    LET nspots == Len(tbl.XPIX)
        withLoc == IF "LOCATION" \in DOMAIN tbl THEN tbl
                   ELSE [c \in DOMAIN tbl \cup {"LOCATION"} |->
                            IF c = "LOCATION" THEN ZeroColumn(nspots) ELSE tbl[c]]
    IN  IF "PINHOLE_ID" \in DOMAIN withLoc THEN withLoc
        ELSE [c \in DOMAIN withLoc \cup {"PINHOLE_ID"} |->
                 IF c = "PINHOLE_ID" THEN ZeroColumn(nspots) ELSE withLoc[c]]

\* lines 143-147
AddColumns ==
    /\ pc = "columns"
    /\ spots' = WithIdentityColumns(spots)
    /\ pair' = 0
    /\ pc' = "pairs"
    /\ UNCHANGED <<ties, globals, exception, callVars, triVars>>
    /\ UNCHANGED <<measured_spots_distances, measured_spots_indices,
                   fiducials_candidates_indices, metrology_xy, indices, distances,
                   indices0, loop, matching_known_fiducials_indices, cluster, rank,
                   applied, writes>>


\* lines 150-190: the next matched candidate, its triangles and their ranking
NextPair ==
    /\ pc = "pairs"
    /\ pair < Len(fiducials_candidates_indices)
    /\ LET index1 == At(fiducials_candidates_indices, pair)
           index2 == At(matching_known_fiducials_indices, pair)
       IN  cluster' = MatchCluster(spots, metrology_pinholes_table[1],
                                   At(metrology_fiducials_table[1], index2).LOCATION,
                                   At(measured_spots_indices, index1),
                                   At(measured_spots_distances, index1))
    /\ rank' = 0
    /\ pc' = "triangles"
    /\ UNCHANGED <<ties, globals, spots, exception, callVars, triVars>>
    /\ UNCHANGED <<measured_spots_distances, measured_spots_indices,
                   fiducials_candidates_indices, metrology_xy, indices, distances,
                   indices0, loop, matching_known_fiducials_indices, pair, applied,
                   writes>>

\* the triangle the loop of line 191 is at
CurrentTriangle == At(cluster.ranked_pairs, rank)

\* tc1[p] > 0.9 (line 192) and dist2[p] > 1.e-3 (line 193)
IsFlat(cl, p) == FGt(At(cl.tc1, p), FlatCosine)
IsBad(cl, p) == Exceeds(At(cl.dist2, p), MaxDist2)

\* the cluster with the visit of triangle p, which ended as what says, on record
Visit(cl, p, what) == [cl EXCEPT !.visited = Append(@, [p |-> p, what |-> what])]

\* the loop of line 191 is left: on to the next pair of line 150
LeaveTriangles ==
    /\ pair' = pair + 1
    /\ pc' = "pairs"
    /\ UNCHANGED rank

\* line 191: ranked_pairs is exhausted
TrianglesDone ==
    /\ pc = "triangles"
    /\ rank = Len(cluster.ranked_pairs)
    /\ LeaveTriangles
    /\ UNCHANGED <<ties, globals, spots, exception, callVars, triVars>>
    /\ UNCHANGED <<measured_spots_distances, measured_spots_indices,
                   fiducials_candidates_indices, metrology_xy, indices, distances,
                   indices0, loop, matching_known_fiducials_indices, cluster, applied,
                   writes>>

\* line 192: a flat triangle is passed over
TriangleSkip ==
    /\ pc = "triangles"
    /\ rank < Len(cluster.ranked_pairs)
    /\ IsFlat(cluster, CurrentTriangle)
    /\ cluster' = Visit(cluster, CurrentTriangle, "continue")
    /\ rank' = rank + 1
    /\ UNCHANGED <<ties, globals, pc, spots, exception, callVars, triVars>>
    /\ UNCHANGED <<measured_spots_distances, measured_spots_indices,
                   fiducials_candidates_indices, metrology_xy, indices, distances,
                   indices0, loop, matching_known_fiducials_indices, pair, applied,
                   writes>>

\* line 193: the best match of this triangle is too far, the loop ends
TriangleBreak ==
    /\ pc = "triangles"
    /\ rank < Len(cluster.ranked_pairs)
    /\ ~ IsFlat(cluster, CurrentTriangle)
    /\ IsBad(cluster, CurrentTriangle)
    /\ cluster' = Visit(cluster, CurrentTriangle, "break")
    /\ LeaveTriangles
    /\ UNCHANGED <<ties, globals, spots, exception, callVars, triVars>>
    /\ UNCHANGED <<measured_spots_distances, measured_spots_indices,
                   fiducials_candidates_indices, metrology_xy, indices, distances,
                   indices0, loop, matching_known_fiducials_indices, applied,
                   writes>>

\* the spot rows of the vertices of measured triangle p: pi1[k1]
VertexRows(cl, p) == [n \in 1 .. 3 |-> At(cl.pi1, At(cl.tk1, p)[n])]

\* MatchedPinholeIds that gives the rows k2 of the pinholes, not their ids
MatchedPinholeIds_Rows(cl, p) ==
    [n \in 1 .. 3 |-> At(cl.tk2, At(cl.matched, p))[n]]

\* the pinhole ids of the vertices of the metrology triangle matched to p
MatchedPinholeIds(cl, p) ==
    [n \in 1 .. 3 |-> At(cl.metrology_pinhole_ids, At(cl.tk2, At(cl.matched, p))[n])]

\* lines 195-208: the triangle is applied; the loop ends when every spot of the
\* cluster has a pinhole id
TriangleApply ==
    /\ pc = "triangles"
    /\ rank < Len(cluster.ranked_pairs)
    /\ ~ IsFlat(cluster, CurrentTriangle)
    /\ ~ IsBad(cluster, CurrentTriangle)
    /\ LET p == CurrentTriangle
           k1 == At(cluster.tk1, p)
           ids == MatchedPinholeIds(cluster, p)
           rows == VertexRows(cluster, p)
       IN  /\ cluster' = [Visit(cluster, p, "apply") EXCEPT
                            !.pinhole_ids = Assign(@, k1, ids)]
           /\ spots' = [spots EXCEPT
                          !.LOCATION = Assign(@, rows, [n \in 1 .. 3 |-> cluster.location]),
                          !.PINHOLE_ID = Assign(@, rows, ids)]
           /\ applied' = applied \cup {rows[n] : n \in 1 .. 3}
           /\ writes' = writes \cup {[row |-> rows[n], LOCATION |-> cluster.location,
                                      PINHOLE_ID |-> ids[n]] : n \in 1 .. 3}
    /\ IF \A n \in 1 .. Len(cluster'.pinhole_ids) : cluster'.pinhole_ids[n] > 0
       THEN LeaveTriangles
       ELSE /\ rank' = rank + 1
            /\ UNCHANGED <<pc, pair>>
    /\ UNCHANGED <<ties, globals, exception, callVars, triVars>>
    /\ UNCHANGED <<measured_spots_distances, measured_spots_indices,
                   fiducials_candidates_indices, metrology_xy, indices, distances,
                   indices0, loop, matching_known_fiducials_indices>>

\* line 210
Return ==
    /\ pc = "pairs"
    /\ pair = Len(fiducials_candidates_indices)
    /\ pc' = "returned"
    /\ UNCHANGED <<ties, globals, spots, exception, callVars, locals, triVars>>

Next ==
    \/ Call
    \/ LoadMissing
    \/ LoadMetrology
    \/ LoadCached
    \/ FindCandidates
    \/ QueryFiducials
    \/ RefineNoCandidate
    \/ Refine
    \/ Select
    \/ AddColumns
    \/ NextPair
    \/ TrianglesDone
    \/ TriangleSkip
    \/ TriangleBreak
    \/ TriangleApply
    \/ Return

Spec == Init /\ [][Next]_vars

-----------------------------------------------------------------------------
(* Properties of findfiducials, under Spec *)

\* where the pointing of this exposure puts the pinhole of a metrology row
TruePosition(row) == << row.X_FP + trueShift[1], row.Y_FP + trueShift[2] >>

\* the position of spot n (0-based) of a table
SpotAt(tbl, n) == << At(tbl.XPIX, n), At(tbl.YPIX, n) >>

\* a, b, c are on one line
Collinear(a, b, c) ==
    (b[1] - a[1]) * (c[2] - a[2]) = (b[2] - a[2]) * (c[1] - a[1])

\* the exposure shows the four pinholes of the square fiducial and nothing else
SquareExposure ==
    /\ metrologyFile = Some(SquareFile)
    /\ spotsIn \in {SpotTable(SquareFile, trueShift, "full"),
                    SpotTable(SquareFile, trueShift, "reversed")}

\* C1: for the fiducial with pinholes (0,0)[4], (1,0)[1], (0,1)[2], (1,1)[3] and
\* four spots of the same layout shifted by a fixed offset, findfiducials returns
\* each spot with the PINHOLE_ID of the pinhole at the same relative position and
\* with the LOCATION of the fiducial.
C1_SquareIdentified ==
    (pc = "returned" /\ SquareExposure) =>
        \A n \in Range0(Len(spots.XPIX)) :
            \A m \in 1 .. Len(SquareFile) :
                (SquareFile[m].PINHOLE_ID > 0
                   /\ SpotAt(spots, n) = TruePosition(SquareFile[m])) =>
                    /\ At(spots.PINHOLE_ID, n) = SquareFile[m].PINHOLE_ID
                    /\ At(spots.LOCATION, n) = SquareFile[m].LOCATION

\* the spots of the current cluster are the pinholes of its fiducial moved by the
\* pointing, pairwise distinct and no three of them on a line
CleanCluster ==
    LET pin == metrology_pinholes_table[1]
        at(n) == SpotAt(spots, cluster.pi1[n])
    IN  /\ Len(cluster.pi1) = Len(cluster.pi2)
        /\ Len(cluster.pi1) >= 3
        /\ {at(n) : n \in 1 .. Len(cluster.pi1)}
             = {TruePosition(At(pin, cluster.pi2[n])) : n \in 1 .. Len(cluster.pi2)}
        /\ \A a, b \in 1 .. Len(cluster.pi1) : a # b => at(a) # at(b)
        /\ \A a, b, c \in 1 .. Len(cluster.pi1) :
              (a < b /\ b < c) => ~ Collinear(at(a), at(b), at(c))

\* C2: when the spots of a matched cluster are an exact translated copy of the
\* pinholes of the fiducial, pairwise distinct and not collinear, then after the
\* assignment loop of the cluster no two of its spots hold the same nonzero
\* PINHOLE_ID.
C2_NoPinholeIdTwice ==
    (pc = "pairs" /\ pair > 0 /\ CleanCluster) =>
        \A a, b \in 1 .. Len(cluster.pi1) :
            (a # b /\ At(spots.PINHOLE_ID, cluster.pi1[a]) # 0) =>
                At(spots.PINHOLE_ID, cluster.pi1[a]) # At(spots.PINHOLE_ID, cluster.pi1[b])

\* the position among the candidates of the spot of fiducial centre f (a row of the
\* fiducials table), None when that spot is no candidate
TrueCandidate(f) ==
    LET hit == {n \in 1 .. Len(fiducials_candidates_indices) :
                   SpotAt(spots, fiducials_candidates_indices[n]) = TruePosition(f)}
    IN  IF hit = {} THEN None ELSE Some((CHOOSE n \in hit : TRUE) - 1)

\* every known fiducial centre is its own candidate spot plus one translation, the
\* transform of the load less the pointing
TranslatedCentres ==
    /\ pc = "refine"
    /\ Len(fiducials_candidates_indices) > 0
    /\ \A n \in 1 .. Len(metrology_fiducials_table[1]) :
          TrueCandidate(metrology_fiducials_table[1][n]) # None

\* every fiducial centre is matched to its own candidate, at distance zero
ExactRecovery ==
    \A n \in 1 .. Len(metrology_fiducials_table[1]) :
        /\ Some(indices[n]) = TrueCandidate(metrology_fiducials_table[1][n])
        /\ distances[n] = 0

\* C3 as stated: when every known fiducial centre is its true candidate plus one
\* global translation, after the two refinement rounds every centre is matched to
\* its own candidate with residual zero.
C3_ExactRecoveryAlways ==
    (TranslatedCentres /\ loop = RefineLoops) => ExactRecovery

\* the first query (line 109) gave every centre its own candidate
FirstQueryRight ==
    \A n \in 1 .. Len(metrology_fiducials_table[1]) :
        Some(indices0[n]) = TrueCandidate(metrology_fiducials_table[1][n])

\* C3 amended: when every known fiducial centre is its true candidate plus one
\* global translation, and the translation is small enough that the nearest
\* candidate of every centre before any refinement is its own candidate, then after
\* the two refinement rounds every centre is matched to its own candidate with
\* residual zero.
C3_ExactRecovery ==
    (TranslatedCentres /\ FirstQueryRight /\ loop = RefineLoops) => ExactRecovery

\* three fiducials, a translation that is not null, both rounds done and the
\* first query right
C3_Witness ==
    /\ TranslatedCentres
    /\ FirstQueryRight
    /\ loop = RefineLoops
    /\ Len(metrology_fiducials_table[1]) = 3
    /\ loadTx[1] # trueShift

\* the number of other spots below separation from spot n (0-based)
OthersWithin(tbl, n) ==
    Cardinality({m \in Range0(Len(tbl.XPIX)) :
                    m # n /\ Dist2(SpotAt(tbl, m), SpotAt(tbl, n)) < Sq(Separation)})

\* C4: a spot is a fiducial candidate exactly when at least 2 other spots are at a
\* distance below separation; of one isolated spot and a cluster of 4 spots whose
\* mutual distances are below separation, the 4 spots of the cluster are the
\* candidates and the isolated spot is none.
C4_CandidateIffTwoNear ==
    pc \in {"query", "refine"} =>
        /\ \A n \in Range0(Len(spots.XPIX)) :
              (n \in SetOf(fiducials_candidates_indices)) <=> (OthersWithin(spots, n) >= 2)
        /\ \A a, b \in 1 .. Len(fiducials_candidates_indices) :
              a < b => fiducials_candidates_indices[a] < fiducials_candidates_indices[b]
        /\ spotsIn = SpotTable(SquareFile, trueShift, "isolated") =>
              fiducials_candidates_indices = <<1, 2, 3, 4>>

\* candidates were looked for among spots with exactly 2 others near them and a
\* spot with none
C4_Witness ==
    /\ pc = "query"
    /\ \E n \in Range0(Len(spots.XPIX)) : OthersWithin(spots, n) = 2
    /\ \E n \in Range0(Len(spots.XPIX)) : OthersWithin(spots, n) = 0

\* C5: for any well-formed spot table (here: one that has spots), one with no
\* candidate spot included, findfiducials returns the table, with no or part of
\* the identities, and does not raise.
C5_NoMatchIsNoError ==
    (metrologyFile # None /\ Len(spotsIn.XPIX) > 0) => pc # "raised"

\* the value of an identity column of the input for spot n (0-based): 0 when the
\* table came without the column
InputIdentity(col, n) ==
    IF col \in DOMAIN spotsIn THEN At(spotsIn[col], n) ELSE 0

\* XPIX and YPIX are as passed in and both identity columns exist
FrameKept ==
    /\ spots.XPIX = spotsIn.XPIX
    /\ spots.YPIX = spotsIn.YPIX
    /\ {"LOCATION", "PINHOLE_ID"} \subseteq DOMAIN spots
    /\ Len(spots.LOCATION) = Len(spots.XPIX)
    /\ Len(spots.PINHOLE_ID) = Len(spots.XPIX)

\* C9 as stated: after findfiducials returns, every spot that is no vertex of an
\* accepted measured triangle has LOCATION = 0 and PINHOLE_ID = 0, and XPIX and
\* YPIX of every spot are unchanged.
C9_UnmatchedAreZero ==
    pc = "returned" =>
        /\ FrameKept
        /\ \A n \in Range0(Len(spots.XPIX)) \ applied :
              At(spots.LOCATION, n) = 0 /\ At(spots.PINHOLE_ID, n) = 0

\* C9 amended: after findfiducials returns, every spot that is no vertex of an
\* accepted measured triangle has the LOCATION and PINHOLE_ID it was passed in
\* with, 0 for a column the input table lacked, and XPIX and YPIX of every spot
\* are unchanged.
C9_UnmatchedRetained ==
    pc = "returned" =>
        /\ FrameKept
        /\ \A n \in Range0(Len(spots.XPIX)) \ applied :
              /\ At(spots.LOCATION, n) = InputIdentity("LOCATION", n)
              /\ At(spots.PINHOLE_ID, n) = InputIdentity("PINHOLE_ID", n)

\* a table that came without identity columns was returned with spots that were
\* assigned and spots that were not
C9_Witness ==
    /\ pc = "returned"
    /\ "LOCATION" \notin DOMAIN spotsIn
    /\ "PINHOLE_ID" \notin DOMAIN spotsIn
    /\ applied # {}
    /\ Range0(Len(spots.XPIX)) \ applied # {}

\* C10: over any sequence of calls the metrology table is read and its pixel
\* positions derived at most once; the cached tables stay what that load made of
\* the file with the transform of its call, whatever the refinement of a call
\* subtracts and whatever transform a later call is made with, and the fiducial
\* centres a call starts from are those of the cache.
C10_LoadedOnce ==
    /\ Len(loadTx) <= 1
    /\ (metrology_pinholes_table = None) = (loadTx = << >>)
    /\ (metrology_fiducials_table = None) = (loadTx = << >>)
    /\ loadTx # << >> =>
          /\ metrology_pinholes_table = Some(PinholesTable(metrologyFile[1], loadTx[1]))
          /\ metrology_fiducials_table = Some(FiducialsTable(metrology_pinholes_table[1]))
    /\ (pc = "refine" /\ loop = 0) =>
          metrology_xy =
              [n \in 1 .. Len(metrology_fiducials_table[1]) |->
                  << SubPix * metrology_fiducials_table[1][n].XPIX,
                     SubPix * metrology_fiducials_table[1][n].YPIX >>]

\* a second call, made with another transform than the one of the load, has gone
\* through its refinement and returned
C10_Witness ==
    /\ calls = 2
    /\ pc = "returned"
    /\ Len(loadTx) = 1
    /\ input_tx # loadTx[1]
    /\ metrology_xy # << >>

\* a <= n on floats and d <= lim on keys: False on nan
FLe(a, n) == a.kind = "num" /\ a.v <= n
AtMost(d, lim) == d # NaNKey /\ lim # NaNKey /\ d <= lim

\* pinhole_ids of the cluster after its first n visits
RECURSIVE IdsAfter(_, _)
IdsAfter(cl, n) ==
    IF n = 0 THEN [m \in 1 .. Len(cl.pi1) |-> 0]
    ELSE IF cl.visited[n].what = "apply"
         THEN Assign(IdsAfter(cl, n - 1), At(cl.tk1, cl.visited[n].p),
                     MatchedPinholeIds(cl, cl.visited[n].p))
         ELSE IdsAfter(cl, n - 1)

\* every spot of the cluster has a pinhole id from this pass
AllLabelled(ids) == \A m \in 1 .. Len(ids) : ids[m] > 0

\* C11: within one matched cluster the measured triangles are visited in ascending
\* order of their best-match squared distance; a visited triangle is applied exactly
\* when its c <= 0.9, its distance <= 1e-3 and not every spot of the cluster has
\* a pinhole id yet; after a non-flat triangle with distance > 1e-3 or once every
\* spot has an id no further triangle is applied, and the loop ends no earlier.
C11_AcceptanceRule ==
    LET V == cluster.visited
        rp == cluster.ranked_pairs
    IN  /\ Len(V) <= Len(rp)
        /\ \A n \in 1 .. Len(V) : V[n].p = rp[n]
        /\ \A a, b \in 1 .. Len(rp) :
              a < b => SortKey(At(cluster.dist2, rp[a])) <= SortKey(At(cluster.dist2, rp[b]))
        /\ \A n \in 1 .. Len(V) :
              (V[n].what = "apply") <=>
                  /\ FLe(At(cluster.tc1, V[n].p), FlatCosine)
                  /\ AtMost(At(cluster.dist2, V[n].p), MaxDist2)
                  /\ ~ AllLabelled(IdsAfter(cluster, n - 1))
        /\ \A n, m \in 1 .. Len(V) :
              (n < m /\ (V[n].what = "break" \/ AllLabelled(IdsAfter(cluster, n)))) =>
                  V[m].what # "apply"
        /\ (pc = "pairs" /\ pair > 0) =>
              \/ Len(V) = Len(rp)
              \/ V[Len(V)].what = "break"
              \/ AllLabelled(IdsAfter(cluster, Len(V)))

\* the candidates of lines 97-101, which line 127 overwrites, and their positions
Candidates == CandidateIndices(measured_spots_distances)

\* the squared distance, in 1/SubPix pixel, from the offset-corrected centre of
\* fiducial f (0-based row of the fiducials table) to the candidate nearest to it
NearestDistance(f) ==
    LET cxy == CandidateXY(spots, Candidates)
    IN  Min([n \in 1 .. Len(cxy) |-> Dist2(cxy[n], At(metrology_xy, f))])

\* the fiducials whose corrected centre is less than 10 pixels from a candidate
Accepted ==
    {f \in Range0(Len(metrology_xy)) : NearestDistance(f) < Sq(MaxDistance * SubPix)}

\* C12: after exactly 2 refinement rounds the pairs are exactly the known fiducials
\* whose offset-corrected centre is strictly less than 10 pixels from its nearest
\* candidate, each with that nearest candidate; a fiducial is in at most one pair,
\* and a fiducial at 10 pixels or more gives no pair and no label to any spot.
C12_MatcherAcceptance ==
    pc \in {"columns", "pairs", "triangles", "returned"} =>
        /\ loop = RefineLoops
        /\ Len(matching_known_fiducials_indices) = Len(fiducials_candidates_indices)
        /\ SetOf(matching_known_fiducials_indices) = Accepted
        /\ Len(matching_known_fiducials_indices) = Cardinality(Accepted)
        /\ \A n \in 1 .. Len(matching_known_fiducials_indices) :
              /\ fiducials_candidates_indices[n] \in SetOf(Candidates)
              /\ Dist2(<< SubPix * SpotAt(spots, fiducials_candidates_indices[n])[1],
                          SubPix * SpotAt(spots, fiducials_candidates_indices[n])[2] >>,
                       At(metrology_xy, matching_known_fiducials_indices[n]))
                   = NearestDistance(matching_known_fiducials_indices[n])
        /\ pc \in {"pairs", "triangles", "returned"} =>
              \A f \in Range0(Len(metrology_xy)) \ Accepted :
                  \A n \in applied :
                      At(spots.LOCATION, n) # At(metrology_fiducials_table[1], f).LOCATION

\* a call has returned with a fiducial paired and labelled, a fiducial whose
\* nearest candidate is at 10 pixels exactly and one further off or nearer
C12_Witness ==
    /\ pc = "returned"
    /\ applied # {}
    /\ Accepted # {}
    /\ \E f \in Range0(Len(metrology_xy)) : NearestDistance(f) = Sq(MaxDistance * SubPix)

\* the visits of the current cluster that applied a triangle with the spot at
\* position a (0-based) of the cluster among its vertices
AppliedWith(a) ==
    {n \in 1 .. Len(cluster.visited) :
        /\ cluster.visited[n].what = "apply"
        /\ a \in SetOf(At(cluster.tk1, cluster.visited[n].p))}

\* the pinhole id that visit n gave the spot at position a
IdGiven(n, a) ==
    LET k1 == At(cluster.tk1, cluster.visited[n].p)
    IN  MatchedPinholeIds(cluster, cluster.visited[n].p)[CHOOSE j \in 1 .. 3 : k1[j] = a]

\* the last of a non-empty set of visits
Latest(visits) == CHOOSE n \in visits : \A m \in visits : m <= n

\* C13: a spot of a cluster that is a vertex of several applied triangles holds the
\* PINHOLE_ID given by the last applied of them in ascending order of best-match
\* distance, whatever an earlier triangle wrote, and every triangle that passes
\* the tests is applied whatever ids its spots hold.
C13_LastTriangleWins ==
    pc \in {"triangles", "pairs"} =>
        /\ \A a \in Range0(Len(cluster.pi1)) :
              AppliedWith(a) # {} =>
                  /\ At(spots.PINHOLE_ID, At(cluster.pi1, a))
                        = IdGiven(Latest(AppliedWith(a)), a)
                  /\ At(cluster.pinhole_ids, a) = IdGiven(Latest(AppliedWith(a)), a)
                  /\ At(spots.LOCATION, At(cluster.pi1, a)) = cluster.location
        /\ \A n, m \in 1 .. Len(cluster.visited) :
              n < m => SortKey(At(cluster.dist2, cluster.visited[n].p))
                          <= SortKey(At(cluster.dist2, cluster.visited[m].p))

\* the loop of a cluster has ended and one of its spots holds an id other than
\* the one an earlier applied triangle gave it
C13_Witness ==
    /\ pc = "pairs"
    /\ pair > 0
    /\ \E a \in Range0(Len(cluster.pi1)) :
          \E n \in AppliedWith(a) :
              /\ n < Latest(AppliedWith(a))
              /\ IdGiven(n, a) # IdGiven(Latest(AppliedWith(a)), a)
              /\ At(spots.PINHOLE_ID, At(cluster.pi1, a)) # IdGiven(n, a)

\* the identity columns of the table passed in are absent or all 0
StartsUnlabelled ==
    \A col \in {"LOCATION", "PINHOLE_ID"} \cap DOMAIN spotsIn :
        \A n \in 1 .. Len(spotsIn[col]) : spotsIn[col][n] = 0

\* (loc, pid) is a pinhole of the metrology pinhole table
IsPinhole(loc, pid) ==
    /\ pid > 0
    /\ \E n \in 1 .. Len(metrology_pinholes_table[1]) :
          /\ metrology_pinholes_table[1][n].LOCATION = loc
          /\ metrology_pinholes_table[1][n].PINHOLE_ID = pid

\* the spots in the neighbourhood of pair n (from 1) of line 150
NeighbourhoodOf(n) ==
    SetOf(NeighborIndices(At(measured_spots_indices, fiducials_candidates_indices[n] ),
                          At(measured_spots_distances, fiducials_candidates_indices[n])))

-----------------------------------------------------------------------------
(* compute_triangles on its own: point lists with repeated, collinear, isosceles  *)
(* and scalene triples, and their images under similarities of the plane          *)

MaxPts == 4

TriPoints == { <<0, 0>>, <<1, 0>>, <<2, 0>>, <<1, 2>> }

PointLists == UNION {[1 .. m -> TriPoints] : m \in 0 .. MaxPts}

\* a similarity << <<a, b>>, <<u, v>> >> takes the point z to (a + ib) z + (u + iv):
\* the rotation by the angle of a + ib, the scale |a + ib| and the translation (u, v)
Similarities ==
    { << <<2, 0>>, <<0, 0>> >>,  << <<-1, 0>>, <<4, 1>> >>, << <<1, 0>>, <<-3, 7>> >>,
      << <<1, 1>>, <<2, -5>> >>, << <<3, 4>>, <<-6, 1>> >> }

Identity == << <<1, 0>>, <<0, 0>> >>

Image(g, p) == << g[1][1] * p[1] - g[1][2] * p[2] + g[2][1],
                  g[1][2] * p[1] + g[1][1] * p[2] + g[2][2] >>

Xs(points) == Array([n \in 1 .. Len(points) |-> points[n][1]])
Ys(points) == Array([n \in 1 .. Len(points) |-> points[n][2]])

TriInit ==
    /\ ties \in {"first", "last"}
    /\ metrologyFile = None
    /\ Imported
    /\ pts \in PointLists
    /\ tri = None
    /\ sim = Identity
    /\ triSim = None

\* compute_triangles(x, y) on the points
TriCompute ==
    /\ tri = None
    /\ tri' = Some(compute_triangles(Xs(pts), Ys(pts)))
    /\ UNCHANGED <<ties, globals, pc, spots, exception, callVars, locals, pts, sim, triSim>>

\* compute_triangles(x, y) on the image of the points under a similarity
TriCompareImage ==
    /\ tri # None
    /\ triSim = None
    /\ \E g \in Similarities :
          /\ sim' = g
          /\ LET img == Array([n \in 1 .. Len(pts) |-> Image(g, pts[n])])
             IN  triSim' = Some(compute_triangles(Xs(img), Ys(img)))
    /\ UNCHANGED <<ties, globals, pc, spots, exception, callVars, locals, pts, tri>>

TriNext ==
    \/ TriCompute
    \/ TriCompareImage

TriSpec == TriInit /\ [][TriNext]_vars

-----------------------------------------------------------------------------
(* Properties of compute_triangles, under TriSpec *)

Binomial3(m) == (m * (m - 1) * (m - 2)) \div 6

\* the points of triangle n of the result t on the points p are pairwise distinct
DistinctVertices(p, t, n) ==
    \A a, b \in 1 .. 3 : a # b => At(p, t.tk[n][a]) # At(p, t.tk[n][b])

\* C6: compute_triangles over m points returns exactly C(m,3) triangles, one for
\* every triple i < j < k of point indices and none twice, and the three indices
\* stored for a triangle are the three of its triple, each once, whatever sides are
\* equal.
C6_OneTrianglePerTriple ==
    tri # None =>
        LET t == tri[1]
            m == Len(pts)
        IN  /\ Len(t.tk) = Binomial3(m)
            /\ Len(t.tr) = Len(t.tk) /\ Len(t.tc) = Len(t.tk)
            /\ \A i, j, k \in Range0(m) :
                  i < j /\ j < k =>
                      Cardinality({n \in 1 .. Len(t.tk) : SetOf(t.tk[n]) = {i, j, k}}) = 1
            /\ \A n \in 1 .. Len(t.tk) :
                  /\ Len(t.tk[n]) = 3
                  /\ Cardinality(SetOf(t.tk[n])) = 3
                  /\ SetOf(t.tk[n]) \subseteq Range0(m)

\* a list of four points with two equal sides in one triangle and three equal
\* (null) sides in another has been given its four triangles
C6_Witness ==
    /\ tri # None
    /\ Len(pts) = 4
    /\ Len(tri[1].tk) = 4
    /\ pts[1] = pts[2] /\ pts[2] = pts[3] /\ pts[3] # pts[4]

\* C7 as stated: every triangle compute_triangles returns, for any point list, has
\* r >= 1 and -1 <= c <= 1.
C7_FeaturesInRangeAlways ==
    tri # None =>
        \A n \in 1 .. Len(tri[1].tk) :
            FGe(tri[1].tr[n], Scale) /\ FAbsLe(tri[1].tc[n], Scale)

\* C7 amended: every triangle compute_triangles returns whose three points are
\* pairwise distinct has r >= 1 and -1 <= c <= 1.
C7_FeaturesInRange ==
    tri # None =>
        \A n \in 1 .. Len(tri[1].tk) :
            DistinctVertices(pts, tri[1], n) =>
                FGe(tri[1].tr[n], Scale) /\ FAbsLe(tri[1].tc[n], Scale)

\* triangles of distinct points were returned, one with r > 1 and 0 < c < 1 and
\* one of collinear points with c = 1
C7_Witness ==
    /\ tri # None
    /\ \E n \in 1 .. Len(tri[1].tk) :
          /\ DistinctVertices(pts, tri[1], n)
          /\ tri[1].tr[n].v > Scale
          /\ tri[1].tc[n].v > 0 /\ tri[1].tc[n].v < Scale
    /\ \E n \in 1 .. Len(tri[1].tk) :
          /\ DistinctVertices(pts, tri[1], n)
          /\ tri[1].tc[n].v = Scale

\* C8: the same rotation, translation and uniform positive scale applied to every
\* point leaves r and c of the triangle of every index triple as they were.
C8_SimilarityInvariant ==
    triSim # None =>
        /\ Len(triSim[1].tk) = Len(tri[1].tk)
        /\ \A n \in 1 .. Len(tri[1].tk) :
              /\ SetOf(triSim[1].tk[n]) = SetOf(tri[1].tk[n])
              /\ triSim[1].tr[n] = tri[1].tr[n]
              /\ triSim[1].tc[n] = tri[1].tc[n]

\* a scalene triangle has been turned, scaled and moved, and compared
C8_Witness ==
    /\ triSim # None
    /\ sim = << <<3, 4>>, <<-6, 1>> >>
    /\ \E n \in 1 .. Len(tri[1].tk) :
          /\ DistinctVertices(pts, tri[1], n)
          /\ tri[1].tr[n].v > Scale
          /\ tri[1].tc[n].v \notin {0, Scale, -Scale}

=============================================================================
